---- MODULE Spec2Model ----
(***************************************************************************)
(* Model of src/main.py: the POST / handler process_task and the three     *)
(* stages it runs in sequence (generate_code_with_openrouter,              *)
(* deploy_to_github, notify_evaluation).  The LLM API, the source-hosting  *)
(* platform and the callback endpoint are black boxes: every reply they    *)
(* can give is a nondeterministic choice of the action that calls them.    *)
(***************************************************************************)
EXTENDS Integers, Sequences, FiniteSets, TLC

(* ------------------------------ bounds --------------------------------- *)
\* number of POST / requests one behaviour handles
MaxRequests == 2

(* ------------------------- program constants --------------------------- *)
RetryTotal == 5
BackoffFactor == 1
StatusForcelist == {429, 500, 502, 503, 504}

(* --------------------------- value universes --------------------------- *)
SECRET == "s3cret"
Secrets == {SECRET, "wrong"}
NoSha == 0
LicenseText == <<"MIT License text here...">>
DefaultImageUri == "https://example.com/sample.png"
AttachedUri == "data:image/png;base64,AAAA"
Login == "account"

\* task names as character sequences, so that lower()/replace() are computed
Tasks == { <<"M", "y", " ", "T">>, <<"m", "y", "_", "t">> }
Briefs == {"captcha solver"}

\* attachment descriptors: dicts are records over a subset of {name, url};
\* the request model types the list as a plain list, so a non-dict element
\* (here a string) is accepted by validation too.
DictSample   == [kind |-> "dict", name |-> "sample.png", hasUrl |-> TRUE,  url |-> AttachedUri]
DictNoUrl    == [kind |-> "dict", name |-> "sample.png", hasUrl |-> FALSE, url |-> ""]
DictOther    == [kind |-> "dict", name |-> "notes.txt",  hasUrl |-> TRUE,  url |-> "https://example.com/notes.txt"]
NonDict      == [kind |-> "str",  name |-> "",           hasUrl |-> FALSE, url |-> ""]
AttachmentLists ==
  { <<>>, <<DictSample>>, <<DictOther, DictSample>>, <<DictNoUrl>>, <<NonDict>> }

\* replies of the chat-completion endpoint, as seen by session.post(...)
\* after the transport's own retries:
\*   transport   the post raises (connection error, timeout, retries spent)
\*   status      a non-2xx status: raise_for_status() raises
\*   nochoices   2xx, body without a non-empty "choices"
\*   nomessage   2xx, choices[0] without "message"
\*   nullcontent 2xx, message.content is null
\*   fenced      2xx, content with a fenced html block
\*   plain       2xx, content without fences
LLMFailures == {"transport", "status", "nochoices", "nomessage", "nullcontent"}
LLMOutcomes == LLMFailures \cup {"fenced", "plain"}

\* generated text as a token sequence; "~~~" stands for the triple-backquote fence
FencedText == <<"Here:", "~~~", "html", " ", "<html>", " ", "~~~", "bye">>
PlainText  == <<" ", "<html>", " ">>

(* ------------------------------- state --------------------------------- *)
VARIABLES
  OPENROUTER_API_KEY,  \* configuration read at start-up ("" when not set)
  pc,                  \* position of the handler in process_task
  nreq,                \* requests received so far
  req,                 \* the TaskRequest being handled
  files,               \* the file mapping, in insertion order
  repos,               \* the platform's repositories: name -> state
  repo_name,           \* deploy_to_github: normalised repository name
  idx,                 \* deploy_to_github: position of the file loop
  existing_sha,        \* deploy_to_github: sha read by get_contents
  latest_commit_sha,   \* deploy_to_github: latest_commit_sha
  payload,             \* process_task: evaluation_payload
  total,               \* notifier transport: retries left (Retry.total)
  attempts,            \* notifier transport: posts sent to the callback
  delays,              \* notifier transport: sleeps taken between posts
  response,            \* what POST / answered for the current request
  calls,               \* history: kinds of outbound calls of this request
  entered,             \* history: how often each stage was entered
  opFailed,            \* history: repository/file operations that failed
  lastRead,            \* history: the last get_contents and its result
  lastWrite,           \* history: the last update_file/create_file issued
  runCommit,           \* history: last commit this request made (NoSha: none)
  createStatus,        \* history: how create_repo ended for this request
  notifyError,         \* history: exception notify_evaluation handled
  genHist              \* history: LLM reply and exception of the generator

vars == << OPENROUTER_API_KEY, pc, nreq, req, files, repos, repo_name, idx,
           existing_sha, latest_commit_sha, payload, total, attempts, delays,
           response, calls, entered, opFailed, lastRead, lastWrite, runCommit,
           createStatus, notifyError, genHist >>

(* --------------------------- pure functions ---------------------------- *)
Lower(c) ==
  CASE c = "M" -> "m"
    [] c = "Y" -> "y"
    [] c = "T" -> "t"
    [] OTHER -> c

Replace(c, old, new) == IF c = old THEN new ELSE c

\* task_name.lower().replace(" ", "-").replace("_", "-")
RepoName(task_name) ==
  [i \in 1..Len(task_name) |->
     Replace(Replace(Lower(task_name[i]), " ", "-"), "_", "-")]

RepoNames == { RepoName(t) : t \in Tasks }

\* offline_mock_code(brief, sample_image_uri)
offline_mock_code(brief, sample_image_uri) ==
  << <<"index.html",
       << "<!DOCTYPE html><html><head><title>Sample Page</title></head><body><script>",
          "const params = new URLSearchParams(window.location.search);",
          "const imageUrl = params.get('url') || '", sample_image_uri, "';",
          "console.log(imageUrl);",
          "</script></body></html>" >> >>,
     <<"README.md", <<"# Offline Mock README This was generated as a fallback.">> >> >>

\* the attachment loop: the first dict named sample.png that has a url wins;
\* .get on a non-dict element raises AttributeError
RECURSIVE SampleUri(_, _)
SampleUri(attachments, i) ==
  IF i > Len(attachments) THEN [exc |-> "none", uri |-> DefaultImageUri]
  ELSE IF attachments[i].kind # "dict" THEN [exc |-> "AttributeError", uri |-> ""]
  ELSE IF attachments[i].name = "sample.png" /\ attachments[i].hasUrl
       THEN [exc |-> "none", uri |-> attachments[i].url]
  ELSE SampleUri(attachments, i + 1)

\* str.strip() on a token sequence: drop leading and trailing blanks
RECURSIVE LStrip(_)
LStrip(s) == IF s # <<>> /\ Head(s) = " " THEN LStrip(Tail(s)) ELSE s
RECURSIVE RStrip(_)
RStrip(s) ==
  IF s # <<>> /\ s[Len(s)] = " " THEN RStrip(SubSeq(s, 1, Len(s) - 1)) ELSE s
Strip(s) == RStrip(LStrip(s))

\* generated_text.split(fence)[1]: the text between the first two fences
FirstFence(s) == CHOOSE i \in 1..Len(s) : s[i] = "~~~" /\ \A j \in 1..(i-1) : s[j] # "~~~"
AfterFirst(s) == SubSeq(s, FirstFence(s) + 1, Len(s))
SplitSecond(s) ==
  LET rest == AfterFirst(s) IN
  IF \E i \in 1..Len(rest) : rest[i] = "~~~"
  THEN SubSeq(rest, 1, FirstFence(rest) - 1)
  ELSE rest

\* extraction of the HTML from the generated text
ExtractHtml(generated_text) ==
  IF \E i \in 1..Len(generated_text) : generated_text[i] = "~~~"
  THEN LET html_code == Strip(SplitSecond(generated_text)) IN
       IF html_code # <<>> /\ Head(html_code) = "html"
       THEN Strip(Tail(html_code))
       ELSE html_code
  ELSE Strip(generated_text)

LLMFiles(brief, html_code) ==
  << <<"index.html", html_code>>,
     <<"README.md", <<"# Task: ", brief, " Generated using OpenRouter model.">> >> >>

\* generate_code_with_openrouter(brief, checks, attachments) under the LLM
\* reply out.  exc is the exception that leaves the function ("none" when it
\* returns), called tells whether the LLM endpoint was posted to.  The
\* attachment loop runs before the try block; everything from session.post
\* on runs inside it and ends in the offline mock on any exception.
generate_code_with_openrouter(key, brief, attachments, out) ==
  IF key = ""
  THEN [exc |-> "none", called |-> FALSE, files |-> offline_mock_code(brief, "")]
  ELSE LET s == SampleUri(attachments, 1) IN
       IF s.exc # "none"
       THEN [exc |-> s.exc, called |-> FALSE, files |-> <<>>]
       ELSE IF out \in LLMFailures
       THEN [exc |-> "none", called |-> TRUE,
             files |-> offline_mock_code(brief, s.uri)]
       ELSE [exc |-> "none", called |-> TRUE,
             files |-> LLMFiles(brief,
                         ExtractHtml(IF out = "fenced" THEN FencedText ELSE PlainText))]

\* files[path] = content on an insertion-ordered mapping
RECURSIVE HasKey(_, _)
HasKey(m, path) ==
  IF m = <<>> THEN FALSE
  ELSE IF Head(m)[1] = path THEN TRUE ELSE HasKey(Tail(m), path)

DictSet(m, path, content) ==
  IF HasKey(m, path)
  THEN [i \in 1..Len(m) |-> IF m[i][1] = path THEN <<path, content>> ELSE m[i]]
  ELSE Append(m, <<path, content>>)

(* ------------------------ the hosting platform ------------------------- *)
Paths == {"index.html", "README.md", "LICENSE"}
NoRepo == [exists |-> FALSE, sha |-> [p \in Paths |-> NoSha], head |-> 0]

Ok == [cls |-> "ok", status |-> 200]
GithubErrors(statuses) == { [cls |-> "GithubException", status |-> st] : st \in statuses }
OtherError == [cls |-> "ConnectionError", status |-> -1]

\* replies of the platform to each operation, given its current state
CreateRepoReplies(r) ==
  IF r.exists THEN GithubErrors({422, 403}) \cup {OtherError}
  ELSE {Ok} \cup GithubErrors({403}) \cup {OtherError}
GetRepoReplies(r) ==
  IF r.exists THEN {Ok} \cup GithubErrors({403}) \cup {OtherError}
  ELSE GithubErrors({404})
GetContentsReplies(r, path) ==
  IF r.sha[path] # NoSha THEN {Ok} \cup GithubErrors({403}) \cup {OtherError}
  ELSE GithubErrors({404, 403}) \cup {OtherError}
UpdateFileReplies(r, path) ==
  {Ok} \cup GithubErrors({404, 409}) \cup {OtherError}
CreateFileReplies(r, path) ==
  IF r.sha[path] # NoSha THEN GithubErrors({422}) \cup {OtherError}
  ELSE {Ok} \cup GithubErrors({403}) \cup {OtherError}
PagesReplies == { [cls |-> "ok", status |-> 201],
                  [cls |-> "ok", status |-> 409], OtherError }
UserLoginReplies == {Ok} \cup GithubErrors({403})

\* a successful write makes a commit and gives the file a new revision marker
Commit(r, path) ==
  [r EXCEPT !.head = r.head + 1, !.sha = [r.sha EXCEPT ![path] = r.head + 1]]

\* the callback endpoint, one reply per post
CallbackReplies ==
  { [kind |-> "status", status |-> st] : st \in {200, 404, 429, 503} }
    \cup { [kind |-> "refused", status |-> 0] }

(* --------------------------- requests ---------------------------------- *)
Requests ==
  [ email : {"a@example.com"}, secret : Secrets, task : Tasks, round : {1},
    nonce : {"n-1"}, brief : Briefs, checks : {<<"has title">>},
    evaluation_url : {"https://eval.example.com/notify"},
    attachments : AttachmentLists ]

NoReq ==
  [ email |-> "", secret |-> "", task |-> <<>>, round |-> 0, nonce |-> "",
    brief |-> "", checks |-> <<>>, evaluation_url |-> "", attachments |-> <<>> ]

NoPayload ==
  [ email |-> "", task |-> <<>>, round |-> 0, nonce |-> "", repo_url |-> <<>>,
    commit_sha |-> NoSha, pages_url |-> <<>> ]

NoResponse == [status |-> 0, detail |-> "", body |-> NoPayload]
NoRead  == [path |-> "", cls |-> "", status |-> 0, sha |-> NoSha]
NoWrite == [op |-> "", path |-> "", sha |-> NoSha]
NoGen   == [reply |-> "", exc |-> "none"]
Stages == {"generator", "publisher", "notifier"}

deployLocals == << repo_name, idx, existing_sha, latest_commit_sha >>
notifyLocals == << total, attempts, delays, notifyError >>
fileHist     == << lastRead, lastWrite, runCommit >>

(* ------------------------------ helpers -------------------------------- *)
\* if req.secret != SECRET: raise HTTPException(401)
SecretOk_mut(r) == r.secret # ""
SecretOk(r) == r.secret = SECRET

\* if e.status == 422: the repository already exists
AlreadyExists_mut(e) == e.status = 404
AlreadyExists(e) == e.status = 422

\* if e.status == 404: the file does not exist
NotFound(e) == e.status = 404

\* the order of the three calls in the try block of process_task
StageAfter_mut(stage) ==
  CASE stage = "generator" -> "create_repo"
    [] stage = "publisher" -> "notify"
    [] stage = "publisher_raised" -> "notify"
    [] OTHER -> "idle"
StageAfter(stage) ==
  CASE stage = "generator" -> "create_repo"
    [] stage = "publisher" -> "notify"
    [] OTHER -> "idle"

\* except Exception as e: raise HTTPException(500, "Task processing failed: e")
Raise500(from, e) ==
  /\ response' = [status |-> 500, detail |-> e, body |-> NoPayload]
  /\ pc' = StageAfter(from)

(* ------------------------------- Init ---------------------------------- *)
Init ==
  /\ OPENROUTER_API_KEY \in {"", "sk-or-key"}
  /\ pc = "idle"
  /\ nreq = 0
  /\ req = NoReq
  /\ files = <<>>
  /\ repos = [n \in RepoNames |-> NoRepo]
  /\ repo_name = <<>>
  /\ idx = 0
  /\ existing_sha = NoSha
  /\ latest_commit_sha = NoSha
  /\ payload = NoPayload
  /\ total = RetryTotal
  /\ attempts = 0
  /\ delays = <<>>
  /\ response = NoResponse
  /\ calls = {}
  /\ entered = [st \in Stages |-> 0]
  /\ opFailed = {}
  /\ lastRead = NoRead
  /\ lastWrite = NoWrite
  /\ runCommit = NoSha
  /\ createStatus = 0
  /\ notifyError = "none"
  /\ genHist = NoGen

(* --------------------------- process_task ------------------------------ *)
\* POST /: a request arrives; the secret is checked before anything else
ProcessTask ==
  /\ pc = "idle"
  /\ nreq < MaxRequests
  /\ \E r \in Requests :
       /\ req' = r
       /\ IF SecretOk(r)
          THEN /\ pc' = "generate"
               /\ response' = NoResponse
          ELSE /\ pc' = "idle"
               /\ response' = [status |-> 401, detail |-> "Invalid secret",
                               body |-> NoPayload]
  /\ nreq' = nreq + 1
  /\ files' = <<>>
  /\ repo_name' = <<>>
  /\ idx' = 0
  /\ existing_sha' = NoSha
  /\ latest_commit_sha' = NoSha
  /\ payload' = NoPayload
  /\ total' = RetryTotal
  /\ attempts' = 0
  /\ delays' = <<>>
  /\ calls' = {}
  /\ entered' = [st \in Stages |-> 0]
  /\ opFailed' = {}
  /\ lastRead' = NoRead
  /\ lastWrite' = NoWrite
  /\ runCommit' = NoSha
  /\ createStatus' = 0
  /\ notifyError' = "none"
  /\ genHist' = NoGen
  /\ UNCHANGED << OPENROUTER_API_KEY, repos >>

\* files = generate_code_with_openrouter(req.brief, req.checks, req.attachments)
Generate ==
  /\ pc = "generate"
  /\ \E out \in LLMOutcomes :
       LET g == generate_code_with_openrouter(OPENROUTER_API_KEY, req.brief,
                                              req.attachments, out) IN
       /\ calls' = IF g.called THEN calls \cup {"llm"} ELSE calls
       /\ genHist' = [reply |-> IF OPENROUTER_API_KEY = "" THEN "nokey"
                                ELSE IF g.called THEN out ELSE "notcalled",
                      exc |-> g.exc]
       /\ files' = g.files
       /\ IF g.exc = "none"
          THEN /\ pc' = StageAfter("generator")
               /\ UNCHANGED response
          ELSE Raise500("generator_raised", g.exc)
  /\ entered' = [entered EXCEPT !["generator"] = @ + 1]
  /\ UNCHANGED << OPENROUTER_API_KEY, nreq, req, repos, deployLocals, payload,
                  notifyLocals, opFailed, fileHist, createStatus >>

(* -------------------------- deploy_to_github --------------------------- *)
\* after the repository is at hand: files["LICENSE"] = ..., then the loop
StartLoop ==
  /\ files' = DictSet(files, "LICENSE", LicenseText)
  /\ idx' = 1
  /\ pc' = "get_contents"

\* repo = user.create_repo(repo_name, private=False)
CreateRepo ==
  /\ pc = "create_repo"
  /\ LET name == RepoName(req.task) IN
     /\ repo_name' = name
     /\ \E e \in CreateRepoReplies(repos[name]) :
          /\ createStatus' = e.status
          /\ IF e.cls = "ok"
             THEN /\ repos' = [repos EXCEPT ![name].exists = TRUE]
                  /\ StartLoop
                  /\ UNCHANGED << response, opFailed >>
             ELSE IF e.cls = "GithubException" /\ AlreadyExists(e)
             THEN /\ pc' = "get_repo"
                  /\ UNCHANGED << repos, files, idx, response, opFailed >>
             ELSE /\ Raise500("publisher_raised", "create_repo")
                  /\ opFailed' = opFailed \cup {"create_repo"}
                  /\ UNCHANGED << repos, files, idx >>
  /\ calls' = calls \cup {"create_repo"}
  /\ entered' = [entered EXCEPT !["publisher"] = @ + 1]
  /\ UNCHANGED << OPENROUTER_API_KEY, nreq, req, existing_sha,
                  latest_commit_sha, payload, notifyLocals, fileHist, genHist >>

\* repo = user.get_repo(repo_name), in the handler of the 422
GetRepo ==
  /\ pc = "get_repo"
  /\ \E e \in GetRepoReplies(repos[repo_name]) :
       IF e.cls = "ok"
       THEN /\ StartLoop
            /\ UNCHANGED << response, opFailed >>
       ELSE /\ Raise500("publisher_raised", "get_repo")
            /\ opFailed' = opFailed \cup {"get_repo"}
            /\ UNCHANGED << files, idx >>
  /\ calls' = calls \cup {"get_repo"}
  /\ UNCHANGED << OPENROUTER_API_KEY, nreq, req, repos, repo_name,
                  existing_sha, latest_commit_sha, payload, notifyLocals,
                  entered, fileHist, createStatus, genHist >>

\* end of one iteration of "for path, content in files.items()"
Advance ==
  IF idx < Len(files)
  THEN /\ idx' = idx + 1
       /\ pc' = "get_contents"
  ELSE /\ idx' = idx
       /\ pc' = "enable_pages"

\* existing_content = repo.get_contents(path)
GetContents ==
  /\ pc = "get_contents"
  /\ LET path == files[idx][1]
         r == repos[repo_name] IN
     \E e \in GetContentsReplies(r, path) :
       /\ lastRead' = [path |-> path, cls |-> e.cls, status |-> e.status,
                       sha |-> IF e.cls = "ok" THEN r.sha[path] ELSE NoSha]
       /\ IF e.cls = "ok"
          THEN /\ existing_sha' = r.sha[path]
               /\ pc' = "update_file"
               /\ UNCHANGED << idx, response, opFailed >>
          ELSE IF e.cls = "GithubException" /\ NotFound(e)
          THEN /\ pc' = "create_file"
               /\ UNCHANGED << idx, existing_sha, response, opFailed >>
          ELSE IF e.cls = "GithubException"
          THEN \* print("Failed to update/create file"), next file
               /\ Advance
               /\ opFailed' = opFailed \cup {"get_contents"}
               /\ UNCHANGED << existing_sha, response >>
          ELSE /\ Raise500("publisher_raised", "get_contents")
               /\ opFailed' = opFailed \cup {"get_contents"}
               /\ UNCHANGED << idx, existing_sha >>
  /\ lastWrite' = NoWrite
  /\ calls' = calls \cup {"file"}
  /\ UNCHANGED << OPENROUTER_API_KEY, nreq, req, files, repos, repo_name,
                  latest_commit_sha, payload, notifyLocals, entered,
                  runCommit, createStatus, genHist >>

\* commit_data = repo.update_file(path, "Update path", content, existing_content.sha)
UpdateFile ==
  /\ pc = "update_file"
  /\ LET path == files[idx][1]
         r == repos[repo_name] IN
     /\ lastWrite' = [op |-> "update", path |-> path, sha |-> existing_sha]
     /\ \E e \in UpdateFileReplies(r, path) :
          IF e.cls = "ok"
          THEN /\ repos' = [repos EXCEPT ![repo_name] = Commit(r, path)]
               /\ latest_commit_sha' = r.head + 1
               /\ runCommit' = r.head + 1
               /\ Advance
               /\ UNCHANGED << response, opFailed >>
          ELSE IF e.cls = "GithubException" /\ NotFound(e)
          THEN /\ pc' = "create_file"
               /\ opFailed' = opFailed \cup {"update_file"}
               /\ UNCHANGED << repos, latest_commit_sha, runCommit, idx, response >>
          ELSE IF e.cls = "GithubException"
          THEN /\ Advance
               /\ opFailed' = opFailed \cup {"update_file"}
               /\ UNCHANGED << repos, latest_commit_sha, runCommit, response >>
          ELSE /\ Raise500("publisher_raised", "update_file")
               /\ opFailed' = opFailed \cup {"update_file"}
               /\ UNCHANGED << repos, latest_commit_sha, runCommit, idx >>
  /\ calls' = calls \cup {"file"}
  /\ UNCHANGED << OPENROUTER_API_KEY, nreq, req, files, repo_name,
                  existing_sha, payload, notifyLocals, entered, lastRead,
                  createStatus, genHist >>

\* commit_data = repo.create_file(path, "Create path", content), in the
\* handler of the 404: an exception raised here leaves deploy_to_github
CreateFile ==
  /\ pc = "create_file"
  /\ LET path == files[idx][1]
         r == repos[repo_name] IN
     /\ lastWrite' = [op |-> "create", path |-> path, sha |-> NoSha]
     /\ \E e \in CreateFileReplies(r, path) :
          IF e.cls = "ok"
          THEN /\ repos' = [repos EXCEPT ![repo_name] = Commit(r, path)]
               /\ latest_commit_sha' = r.head + 1
               /\ runCommit' = r.head + 1
               /\ Advance
               /\ UNCHANGED << response, opFailed >>
          ELSE /\ Raise500("publisher_raised", "create_file")
               /\ opFailed' = opFailed \cup {"create_file"}
               /\ UNCHANGED << repos, latest_commit_sha, runCommit, idx >>
  /\ calls' = calls \cup {"file"}
  /\ UNCHANGED << OPENROUTER_API_KEY, nreq, req, files, repo_name,
                  existing_sha, payload, notifyLocals, entered, lastRead,
                  createStatus, genHist >>

\* the hosting-enablement post: every outcome is printed and ignored
EnablePages ==
  /\ pc = "enable_pages"
  /\ \E e \in PagesReplies : pc' = "deploy_return"
  /\ calls' = calls \cup {"pages"}
  /\ UNCHANGED << OPENROUTER_API_KEY, nreq, req, files, repos, deployLocals,
                  payload, notifyLocals, response, entered, opFailed,
                  fileHist, createStatus, genHist >>

\* return {repo_url, commit_sha, pages_url}; user.login is fetched from the
\* platform here.  process_task then builds evaluation_payload.
DeployReturn ==
  /\ pc = "deploy_return"
  /\ \E e \in UserLoginReplies :
       IF e.cls = "ok"
       THEN /\ payload' =
                 [ email |-> req.email, task |-> req.task, round |-> req.round,
                   nonce |-> req.nonce,
                   repo_url |-> <<"https://github.com/", Login, "/">> \o repo_name,
                   commit_sha |-> latest_commit_sha,
                   pages_url |-> <<"https://", Login, ".github.io/">>
                                   \o repo_name \o <<"/">> ]
            /\ pc' = StageAfter("publisher")
            /\ UNCHANGED << response, opFailed >>
       ELSE /\ Raise500("publisher_raised", "get_user")
            /\ opFailed' = opFailed \cup {"get_user"}
            /\ UNCHANGED payload
  /\ calls' = calls \cup {"get_user"}
  /\ UNCHANGED << OPENROUTER_API_KEY, nreq, req, files, repos, deployLocals,
                  notifyLocals, entered, fileHist, createStatus, genHist >>

(* -------------------------- notify_evaluation -------------------------- *)
\* Retry(total=5, backoff_factor=1, status_forcelist=[429, 500, 502, 503, 504])
IsRetry(reply) == reply.kind = "refused" \/ reply.status \in StatusForcelist

IsExhausted_mut(t) == t < -2
IsExhausted(t) == t < 0

\* sleep before the next post, after n consecutive failed posts (the
\* transport caps it far above what 5 retries can reach)
BackoffTime(n) ==
  IF n <= 1 THEN 0 ELSE BackoffFactor * 2 ^ (n - 1)

\* except requests.exceptions.RequestException
IsRequestException_mut(cls) == cls \in {"HTTPError"}
IsRequestException(cls) == cls \in {"HTTPError", "ConnectionError", "RetryError"}

\* session = create_resilient_session()
NotifyStart ==
  /\ pc = "notify"
  /\ total' = RetryTotal
  /\ attempts' = 0
  /\ delays' = <<>>
  /\ pc' = "post"
  /\ entered' = [entered EXCEPT !["notifier"] = @ + 1]
  /\ UNCHANGED << OPENROUTER_API_KEY, nreq, req, files, repos, deployLocals,
                  payload, notifyError, response, calls, opFailed, fileHist,
                  createStatus, genHist >>

\* notify_evaluation returns or raises; process_task returns the payload
NotifyEnd(cls) ==
  /\ notifyError' = cls
  /\ IF cls = "none" \/ IsRequestException(cls)
     THEN /\ response' = [status |-> 200, detail |-> "", body |-> payload]
          /\ pc' = StageAfter("notifier")
     ELSE Raise500("notifier_raised", cls)

\* one post of session.post(url, json=data, timeout=30) and what the
\* transport's retry policy does with the reply
NotifyPost ==
  /\ pc = "post"
  /\ attempts' = attempts + 1
  /\ calls' = calls \cup {"callback"}
  /\ \E reply \in CallbackReplies :
       IF IsRetry(reply)
       THEN /\ total' = total - 1
            /\ IF IsExhausted(total - 1)
               THEN /\ NotifyEnd(IF reply.kind = "refused"
                                 THEN "ConnectionError" ELSE "RetryError")
                    /\ UNCHANGED delays
               ELSE /\ delays' = Append(delays, BackoffTime(attempts + 1))
                    /\ UNCHANGED << pc, response, notifyError >>
       ELSE /\ NotifyEnd(IF reply.status >= 400 THEN "HTTPError" ELSE "none")
            /\ UNCHANGED << total, delays >>
  /\ UNCHANGED << OPENROUTER_API_KEY, nreq, req, files, repos, deployLocals,
                  payload, entered, opFailed, fileHist, createStatus, genHist >>

(* ------------------------------ behaviour ------------------------------ *)
Next ==
  \/ ProcessTask
  \/ Generate
  \/ CreateRepo
  \/ GetRepo
  \/ GetContents
  \/ UpdateFile
  \/ CreateFile
  \/ EnablePages
  \/ DeployReturn
  \/ NotifyStart
  \/ NotifyPost

Spec == Init /\ [][Next]_vars

TypeOK ==
  /\ pc \in {"idle", "generate", "create_repo", "get_repo", "get_contents",
             "update_file", "create_file", "enable_pages", "deploy_return",
             "notify", "post"}
  /\ nreq \in 0..MaxRequests
  /\ response.status \in {0, 200, 401, 500}
  /\ attempts \in 0..(RetryTotal + 1)

(* ------------------------------ properties ----------------------------- *)
Finished == nreq > 0 /\ pc = "idle"
PublisherPcs == {"create_repo", "get_repo", "get_contents", "update_file",
                 "create_file", "enable_pages", "deploy_return"}
\* deploy_to_github returned normally: process_task built evaluation_payload
PublisherReturned == payload # NoPayload

RECURSIVE Content(_, _)
Content(m, path) ==
  IF m = <<>> THEN <<>>
  ELSE IF Head(m)[1] = path THEN Head(m)[2] ELSE Content(Tail(m), path)

HasQueryLogic(html) ==
  /\ \E i \in 1..Len(html) :
       html[i] = "const params = new URLSearchParams(window.location.search);"
  /\ \E i \in 1..Len(html) :
       html[i] = "const imageUrl = params.get('url') || '"

\* C1: a request whose secret differs from SECRET is answered 401 and makes
\* no outbound call: no LLM call, no repository or file operation, no
\* hosting-enablement request and no callback post, and no stage is entered.
C1_BadSecretRejected ==
  (nreq > 0 /\ req.secret # SECRET) =>
     /\ pc = "idle"
     /\ response.status = 401
     /\ calls = {}
     /\ attempts = 0
     /\ \A st \in Stages : entered[st] = 0

C1_Witness == nreq > 0 /\ req.secret # SECRET /\ response.status = 401

\* C2: for every input and every failing outcome of the LLM call (missing
\* key, transport error, non-2xx status, response without valid
\* choices/message) the generator returns the offline mock whose index.html
\* holds the query-string reading logic, and no exception leaves it.
C2_FallbackNeverRaises ==
  entered["generator"] = 1 =>
     /\ genHist.exc = "none"
     /\ genHist.reply \in (LLMFailures \cup {"nokey"}) =>
          HasQueryLogic(Content(files, "index.html"))

\* C3: whenever a repository operation or a file operation failed during
\* deploy_to_github, the request ends with a 500 and never with the
\* success payload.
C3_PublishFailureIs500 ==
  (Finished /\ opFailed # {}) => response.status = 500

\* C4: a create_repo rejected with 422 (already exists) does not abort
\* publishing: get_repo is issued and, once it returned the repository, the
\* file loop runs; a create_repo error other than 422 aborts publishing with
\* a 500 before get_repo or any file operation.
C4_ExistingRepoReused ==
  /\ createStatus = 422 =>
       /\ "create_repo" \notin opFailed
       /\ pc = "get_repo" \/ "get_repo" \in calls
       /\ ("get_repo" \in calls /\ "get_repo" \notin opFailed) =>
            (pc = "get_contents" \/ "file" \in calls)
  /\ createStatus \notin {0, 200, 422} =>
       /\ Finished
       /\ response.status = 500
       /\ "create_repo" \in opFailed
       /\ "get_repo" \notin calls
       /\ "file" \notin calls

C4_Witness ==
  createStatus = 422 /\ "get_repo" \in calls /\ runCommit # NoSha

\* C5: a file that exists is updated with the sha just read and never
\* created; a create is issued only when the read reported 404.
C5_UpdateNotCreate ==
  /\ lastWrite.op = "update" =>
       /\ lastRead.path = lastWrite.path
       /\ lastRead.cls = "ok"
       /\ lastWrite.sha = lastRead.sha
       /\ lastWrite.sha # NoSha
  /\ lastWrite.op = "create" =>
       /\ lastRead.path = lastWrite.path
       /\ lastRead.cls = "GithubException"
       /\ lastRead.status = 404

C7_NotifyFailureNonFatal ==
  (Finished /\ PublisherReturned) =>
     /\ response.status = 200
     /\ response.body = payload
     /\ response.body.email = req.email
     /\ response.body.task = req.task
     /\ response.body.round = req.round
     /\ response.body.nonce = req.nonce

C7_Witness ==
  /\ Finished
  /\ response.status = 200
  /\ notifyError = "ConnectionError"
  /\ attempts = RetryTotal + 1

\* C8: whenever deploy_to_github returned normally, the repository holds a
\* LICENSE file.
C8_LicenseAlwaysPresent ==
  PublisherReturned => repos[repo_name].sha["LICENSE"] # NoSha

\* C9: in every success payload commit_sha is the most recent commit this
\* request's publisher run made, and it is never absent.
C9_CommitShaPresent ==
  response.status = 200 =>
     /\ response.body.commit_sha # NoSha
     /\ response.body.commit_sha = runCommit

\* C10: a request is one forward pass generator -> publisher -> notifier:
\* each stage is entered at most once, the publisher only after the
\* generator returned, the notifier and its posts only after the publisher
\* (hosting enablement included) returned normally, and no earlier stage
\* runs once a later one has started.
C10_SingleForwardPass ==
  /\ \A st \in Stages : entered[st] <= 1
  /\ pc = "generate" => entered["publisher"] = 0 /\ entered["notifier"] = 0
  /\ pc \in PublisherPcs =>
       /\ entered["generator"] = 1
       /\ genHist.exc = "none"
       /\ entered["notifier"] = 0
  /\ entered["publisher"] = 1 => entered["generator"] = 1
  /\ (pc \in {"notify", "post"} \/ entered["notifier"] = 1) =>
       /\ entered["generator"] = 1
       /\ entered["publisher"] = 1
       /\ PublisherReturned
       /\ "pages" \in calls
  /\ "callback" \in calls <=> attempts > 0
  /\ attempts > 0 => entered["notifier"] = 1 /\ PublisherReturned

C10_Witness ==
  /\ Finished
  /\ \A st \in Stages : entered[st] = 1
  /\ response.status = 200

====
